---------------------------- MODULE Spec2Model ----------------------------
(***************************************************************************)
(* A model of shared_memory::SharedMemoryJSON                              *)
(* (src/include/shared_memory_json.hpp, the POSIX build): one named        *)
(* region (header + payload buffer) guarded by one named semaphore, used   *)
(* by several handles (the owner and its attachers) that call write, read, *)
(* readWithTimeout and getSequenceNumber concurrently.                     *)
(*                                                                         *)
(* Bytes are one-character strings, "NUL" is the zero byte.  A JSON value  *)
(* is a record [t, n, keys, kids]; json::dump and json::parse are the      *)
(* operators Dump and Parse below (compact output, recursive descent).     *)
(* Time is counted in clock units of 10 ms, so the 10 ms poll sleep is     *)
(* PollInterval = 1 unit.  A handle reads the steady clock only at its     *)
(* deadline check, so each reading is an input: any time not before the    *)
(* previous reading plus the sleep that lies between the two.              *)
(*                                                                         *)
(* Spec and SpecWait follow the calls on a region that its owner has       *)
(* created and an attacher has opened; SpecLife follows the named objects  *)
(* and the handle objects from before the first open; the specifications   *)
(* after it start the calls from other region images or add a caller's     *)
(* loop around them.                                                       *)
(***************************************************************************)
EXTENDS Integers, Sequences, FiniteSets, TLC

(***************************************************************************)
(* Bounds of the model.                                                    *)
(***************************************************************************)
MaxWrites == 2      \* write() calls that pass the size check, in total
MaxFail == 1        \* write() calls that fail the size check, in total
MaxElapsed == 3     \* longest time a readWithTimeout call is followed for
MaxTimeout == 1     \* largest timeout_ms argument, in clock units
MaxLifeFail == 1    \* write() calls that fail the size check, in SpecLife

\* the two handles every test opens on its region: the writer, which creates
\* it, and the reader, which attaches to it
Procs == {"owner", "attacher"}

(***************************************************************************)
(* Program constants.                                                      *)
(***************************************************************************)
MAGIC_NUMBER == 1397574227   \* 0x534D4A53, "SMJS"
PROTOCOL_VERSION == 1
Capacity == 2       \* max_data_size_: the max_size every handle was given
PollInterval == 1   \* sleep_for(milliseconds(10)), in clock units of 10 ms

ErrTooLarge == "JSON data too large for shared memory region"
ErrMagic == "Invalid magic number - shared memory not initialized"
ErrVersion == "Protocol version mismatch"
ErrNoData == "No data in shared memory"
ErrParse == "parse error"
ErrTimeout == "Timeout waiting for new data"

(***************************************************************************)
(* JSON values (nlohmann::json) and their text.                            *)
(***************************************************************************)
JNull == [t |-> "null", n |-> 0, keys |-> <<>>, kids |-> <<>>]
JBool(b) == [t |-> "bool", n |-> IF b THEN 1 ELSE 0, keys |-> <<>>, kids |-> <<>>]
JNum(i) == [t |-> "num", n |-> i, keys |-> <<>>, kids |-> <<>>]
JStr(cs) == [t |-> "str", n |-> 0, keys |-> <<cs>>, kids |-> <<>>]
JArr(vs) == [t |-> "arr", n |-> 0, keys |-> <<>>, kids |-> vs]
\* an object: keys[i] (a sequence of characters) maps to kids[i]
JObj(ks, vs) == [t |-> "obj", n |-> 0, keys |-> ks, kids |-> vs]
\* the caller's `json data` before the call assigns to it
Untouched == [t |-> "untouched", n |-> 0, keys |-> <<>>, kids |-> <<>>]

DigitChars == <<"0", "1", "2", "3", "4", "5", "6", "7", "8", "9">>
IsDigit(c) == \E i \in 1..10 : DigitChars[i] = c
DigitVal(c) == (CHOOSE i \in 1..10 : DigitChars[i] = c) - 1
Letters == {"a", "b", "e", "f", "l", "n", "r", "s", "t", "u"}
Quote == "\""

RECURSIVE DumpNat(_)
DumpNat(i) ==
    IF i < 10 THEN <<DigitChars[i + 1]>>
    ELSE DumpNat(i \div 10) \o <<DigitChars[(i % 10) + 1]>>

DumpStr(cs) == <<Quote>> \o cs \o <<Quote>>

RECURSIVE Dump(_), DumpElems(_), DumpMembers(_, _)
\* json::dump(): compact text, no whitespace
Dump(v) ==
    CASE v.t = "null" -> <<"n", "u", "l", "l">>
      [] v.t = "bool" -> IF v.n = 1 THEN <<"t", "r", "u", "e">>
                         ELSE <<"f", "a", "l", "s", "e">>
      [] v.t = "num" -> DumpNat(v.n)
      [] v.t = "str" -> DumpStr(v.keys[1])
      [] v.t = "arr" -> <<"[">> \o DumpElems(v.kids) \o <<"]">>
      [] v.t = "obj" -> <<"{">> \o DumpMembers(v.keys, v.kids) \o <<"}">>
DumpElems(vs) ==
    IF vs = <<>> THEN <<>>
    ELSE IF Len(vs) = 1 THEN Dump(vs[1])
    ELSE Dump(vs[1]) \o <<",">> \o DumpElems(Tail(vs))
DumpMembers(ks, vs) ==
    IF ks = <<>> THEN <<>>
    ELSE IF Len(ks) = 1 THEN DumpStr(ks[1]) \o <<":">> \o Dump(vs[1])
    ELSE DumpStr(ks[1]) \o <<":">> \o Dump(vs[1]) \o <<",">>
         \o DumpMembers(Tail(ks), Tail(vs))

ParseFail == [ok |-> FALSE, v |-> JNull, rest |-> <<>>]
ParseOk(v, rest) == [ok |-> TRUE, v |-> v, rest |-> rest]
IsPrefix(lit, s) == Len(s) >= Len(lit) /\ SubSeq(s, 1, Len(lit)) = lit
Drop(s, k) == SubSeq(s, k + 1, Len(s))

RECURSIVE ScanDigits(_, _)
\* the digits at the head of s, as a number, and what follows them
ScanDigits(s, acc) ==
    IF s # <<>> /\ IsDigit(Head(s))
    THEN ScanDigits(Tail(s), acc * 10 + DigitVal(Head(s)))
    ELSE ParseOk(JNum(acc), s)

ParseNumber(s) ==
    IF Head(s) = "0" /\ Len(s) >= 2 /\ IsDigit(s[2]) THEN ParseFail
    ELSE ScanDigits(s, 0)

RECURSIVE ScanString(_, _)
\* s follows an opening quote: the characters up to the closing quote
ScanString(s, acc) ==
    IF s = <<>> THEN ParseFail
    ELSE IF Head(s) = Quote THEN ParseOk(JStr(acc), Tail(s))
    ELSE IF Head(s) \in Letters THEN ScanString(Tail(s), Append(acc, Head(s)))
    ELSE ParseFail

\* keys ks with values vs, after key k is given value v (a repeated key keeps
\* its place and takes the later value)
PutMember(ks, vs, k, v) ==
    IF \E i \in 1..Len(ks) : ks[i] = k
    THEN JObj(ks, [i \in 1..Len(vs) |-> IF ks[i] = k THEN v ELSE vs[i]])
    ELSE JObj(Append(ks, k), Append(vs, v))

RECURSIVE ParseValue(_), ParseElems(_, _), ParseMembers(_, _)
ParseValue(s) ==
    IF s = <<>> THEN ParseFail
    ELSE CASE Head(s) = "[" ->
                IF Len(s) >= 2 /\ s[2] = "]" THEN ParseOk(JArr(<<>>), Drop(s, 2))
                ELSE ParseElems(Tail(s), <<>>)
           [] Head(s) = "{" ->
                IF Len(s) >= 2 /\ s[2] = "}" THEN ParseOk(JObj(<<>>, <<>>), Drop(s, 2))
                ELSE ParseMembers(Tail(s), JObj(<<>>, <<>>))
           [] Head(s) = Quote -> ScanString(Tail(s), <<>>)
           [] IsDigit(Head(s)) -> ParseNumber(s)
           [] IsPrefix(<<"n", "u", "l", "l">>, s) -> ParseOk(JNull, Drop(s, 4))
           [] IsPrefix(<<"t", "r", "u", "e">>, s) -> ParseOk(JBool(TRUE), Drop(s, 4))
           [] IsPrefix(<<"f", "a", "l", "s", "e">>, s) -> ParseOk(JBool(FALSE), Drop(s, 5))
           [] OTHER -> ParseFail
ParseElems(s, acc) ==
    LET r == ParseValue(s) IN
    IF ~r.ok \/ r.rest = <<>> THEN ParseFail
    ELSE IF Head(r.rest) = "," THEN ParseElems(Tail(r.rest), Append(acc, r.v))
    ELSE IF Head(r.rest) = "]" THEN ParseOk(JArr(Append(acc, r.v)), Tail(r.rest))
    ELSE ParseFail
ParseMembers(s, obj) ==
    IF s = <<>> \/ Head(s) # Quote THEN ParseFail
    ELSE LET k == ScanString(Tail(s), <<>>) IN
         IF ~k.ok \/ k.rest = <<>> \/ Head(k.rest) # ":" THEN ParseFail
         ELSE LET r == ParseValue(Tail(k.rest))
                  o == PutMember(obj.keys, obj.kids, k.v.keys[1], r.v)
              IN
              IF ~r.ok \/ r.rest = <<>> THEN ParseFail
              ELSE IF Head(r.rest) = "," THEN ParseMembers(Tail(r.rest), o)
              ELSE IF Head(r.rest) = "}" THEN ParseOk(o, Tail(r.rest))
              ELSE ParseFail

\* json::parse(): the whole text must be one value
Parse(s) ==
    LET r == ParseValue(s) IN
    IF r.ok /\ r.rest = <<>> THEN [ok |-> TRUE, v |-> r.v]
    ELSE [ok |-> FALSE, v |-> JNull]


(***************************************************************************)
(* The values handed to write().  With Capacity = 2: "3" fits, "12", "{}"  *)
(* and "[]" fit exactly, and "[1]" (3 bytes) is too large.                 *)
(***************************************************************************)
TooLargeValue == JArr(<<JNum(1)>>)
Values == {JNum(12), JNum(3), JObj(<<>>, <<>>), JArr(<<>>), TooLargeValue}
Fits(v) == Len(Dump(v)) <= Capacity

VARIABLES
    \* the mapped region: SharedMemoryHeader, then the payload buffer
    magic_number, version, data_size, sequence_number, timestamp, payload,
    \* the named semaphore's count
    sem,
    \* each handle's call: its position, the API function, its parameters and locals
    pc, op, data, serialized, tmp, timeout_ms, last_seq, elapsed, ret,
    \* each handle's last_error_ member
    last_error,
    \* history: which handles are between lock() and unlock()
    held,
    \* history: the latest write to touch the region
    lastW,
    \* history: whether a running call started on a whole region image (never
    \* written, or as one complete write left it) that no write has touched since
    clean,
    \* history: whether a running call started after a write() that failed the
    \* size check had returned, the region not touched in between
    afterFail,
    \* history: whether a running readWithTimeout call started on a whole
    \* region image that held new data for it (a sequence number above last_seq)
    newAtCall,
    \* history: the sleeps of each readWithTimeout call
    nSleeps,
    \* history: the writes that copied their payload, with the number each stored
    log,
    \* history: write() calls started, by outcome of the size check
    calls,
    \* the POSIX namespace: the object that "/sem_<name>" and "/<name>" denote
    \* (0: no such name), and the number of objects created under the name
    sem_name, shm_name, nobj,
    \* each semaphore object's count and each memory object's slot
    sem_count, bytes,
    \* each handle object: its lifetime, its members is_creator_, sem_ and
    \* mapped_ptr_ (0: SEM_FAILED, MAP_FAILED), and its position in a call
    hpc, is_creator_, sem_, mapped_ptr_, cs,
    \* the value each handle's latest read() gave
    seen,
    \* history: write() calls that failed the size check
    nfail,
    \* history: how often each handle object's mapping was unmapped (with its
    \* descriptor closed) and how often its semaphore was closed
    released,
    \* the polling consumer's locals: the sequence number it passes to
    \* readWithTimeout, the value it received last, and its place in the loop
    last_cmd_seq, command, loop_pc

region == <<magic_number, version, data_size, sequence_number, timestamp, payload>>
locals == <<pc, op, data, serialized, tmp, timeout_ms, last_seq, elapsed, ret,
            last_error>>
history == <<held, lastW, clean, afterFail, newAtCall, nSleeps, log, calls>>
life == <<sem_name, shm_name, nobj, sem_count, bytes, hpc, is_creator_, sem_,
          mapped_ptr_, cs, seen, nfail, released>>
core == <<region, sem, locals, history>>
loop == <<last_cmd_seq, command, loop_pc>>
vars == <<core, life, loop>>

\* handle objects constructed under one name, each as owner or as attacher
Handles == {"h1", "h2", "h3"}
\* the objects that can come to exist: one pair per owner
Objects == 1..Cardinality(Handles)

\* memset(mapped_ptr_, 0, total_size_): the payload part
ZeroedPayload == [i \in 1..Capacity |-> "NUL"]

NoWrite ==
    [id |-> 0, by |-> "none", v |-> JNull, intact |-> TRUE, done |-> FALSE,
     failed |-> FALSE]

\* the region as the owner created it and the attacher opened it, for Spec and
\* SpecWait; and the namespace before any handle is constructed, for SpecLife
Init ==
    /\ magic_number = 0
    /\ version = 0
    /\ data_size = 0
    /\ sequence_number = 0
    /\ timestamp = 0
    /\ payload = ZeroedPayload
    /\ sem = 1
    /\ pc = [p \in Procs |-> "idle"]
    /\ op = [p \in Procs |-> "none"]
    /\ data = [p \in Procs |-> Untouched]
    /\ serialized = [p \in Procs |-> <<>>]
    /\ tmp = [p \in Procs |-> 0]
    /\ timeout_ms = [p \in Procs |-> 0]
    /\ last_seq = [p \in Procs |-> 0]
    /\ elapsed = [p \in Procs |-> 0]
    /\ ret = [p \in Procs |-> "none"]
    /\ last_error = [p \in Procs |-> ""]
    /\ held = [p \in Procs |-> FALSE]
    /\ lastW = NoWrite
    /\ clean = [p \in Procs |-> FALSE]
    /\ afterFail = [p \in Procs |-> FALSE]
    /\ newAtCall = [p \in Procs |-> FALSE]
    /\ nSleeps = [p \in Procs |-> 0]
    /\ log = <<>>
    /\ calls = [ok |-> 0, fail |-> 0]
    /\ sem_name = 0
    /\ shm_name = 0
    /\ nobj = 0
    /\ sem_count = [k \in Objects |-> 0]
    /\ bytes = [k \in Objects |-> 0]
    /\ hpc = [h \in Handles |-> "unborn"]
    /\ is_creator_ = [h \in Handles |-> FALSE]
    /\ sem_ = [h \in Handles |-> 0]
    /\ mapped_ptr_ = [h \in Handles |-> 0]
    /\ cs = [h \in Handles |-> "out"]
    /\ seen = [h \in Handles |-> 0]
    /\ nfail = 0
    /\ released = [h \in Handles |-> [map |-> 0, sem |-> 0]]
    /\ last_cmd_seq = 0
    /\ command = Untouched
    /\ loop_pc = "poll"

(***************************************************************************)
(* lock() and unlock(): sem_wait and sem_post on the named semaphore.      *)
(***************************************************************************)
lock(p) ==
    /\ sem > 0
    /\ sem' = sem - 1
    /\ held' = [held EXCEPT ![p] = TRUE]

unlock(p) ==
    /\ sem' = sem + 1
    /\ held' = [held EXCEPT ![p] = FALSE]

\* the region is a whole image: never written, or as the latest write left it,
\* that write complete and no other write's stores mixed into it
Stable == lastW.id = 0 \/ (lastW.done /\ lastW.intact)

\* a write touches the region: no running call sees one image any more
Touch == clean' = [q \in Procs |-> FALSE]

\* the latest write stays intact only while no other write touches the region
Touched(p) == IF lastW.by = p THEN lastW ELSE [lastW EXCEPT !.intact = FALSE]

Goto(p, l) == pc' = [pc EXCEPT ![p] = l]

(***************************************************************************)
(* write(data), lines 72-104.                                              *)
(***************************************************************************)
\* CallWrite with >= for the > of line 76
CallWriteStrict(p, v) ==
    /\ pc[p] = "idle"
    /\ IF Fits(v) THEN calls.ok < MaxWrites ELSE calls.fail < MaxFail
    /\ op' = [op EXCEPT ![p] = "write"]
    /\ data' = [data EXCEPT ![p] = v]
    /\ serialized' = [serialized EXCEPT ![p] = Dump(v)]
    /\ Goto(p, IF Len(Dump(v)) >= Capacity THEN "w_catch" ELSE "w_lock")
    /\ calls' = IF Fits(v) THEN [calls EXCEPT !.ok = @ + 1]
                ELSE [calls EXCEPT !.fail = @ + 1]
    /\ UNCHANGED <<region, sem, tmp, timeout_ms, last_seq, elapsed, ret,
                   last_error, held, lastW, clean, afterFail, newAtCall, nSleeps,
                   log, life, loop>>

\* CallWrite without the size check of line 76
CallWriteUnchecked(p, v) ==
    /\ pc[p] = "idle"
    /\ IF Fits(v) THEN calls.ok < MaxWrites ELSE calls.fail < MaxFail
    /\ op' = [op EXCEPT ![p] = "write"]
    /\ data' = [data EXCEPT ![p] = v]
    /\ serialized' = [serialized EXCEPT ![p] = Dump(v)]
    /\ Goto(p, "w_lock")
    /\ calls' = IF Fits(v) THEN [calls EXCEPT !.ok = @ + 1]
                ELSE [calls EXCEPT !.fail = @ + 1]
    /\ UNCHANGED <<region, sem, tmp, timeout_ms, last_seq, elapsed, ret,
                   last_error, held, lastW, clean, afterFail, newAtCall, nSleeps, log,
                   life, loop>>

\* CallWrite with total_size_'s header allowance in the limit of line 76
CallWriteLoose(p, v) ==
    /\ pc[p] = "idle"
    /\ IF Fits(v) THEN calls.ok < MaxWrites ELSE calls.fail < MaxFail
    /\ op' = [op EXCEPT ![p] = "write"]
    /\ data' = [data EXCEPT ![p] = v]
    /\ serialized' = [serialized EXCEPT ![p] = Dump(v)]
    /\ Goto(p, IF Len(Dump(v)) > Capacity + 1 THEN "w_catch" ELSE "w_lock")
    /\ calls' = IF Fits(v) THEN [calls EXCEPT !.ok = @ + 1]
                ELSE [calls EXCEPT !.fail = @ + 1]
    /\ UNCHANGED <<region, sem, tmp, timeout_ms, last_seq, elapsed, ret,
                   last_error, held, lastW, clean, afterFail, newAtCall, nSleeps, log,
                   life, loop>>

\* lines 74-78: serialize, and throw when the text does not fit
CallWrite(p, v) ==
    /\ pc[p] = "idle"
    /\ IF Fits(v) THEN calls.ok < MaxWrites ELSE calls.fail < MaxFail
    /\ op' = [op EXCEPT ![p] = "write"]
    /\ data' = [data EXCEPT ![p] = v]
    /\ serialized' = [serialized EXCEPT ![p] = Dump(v)]
    /\ Goto(p, IF Len(Dump(v)) > Capacity THEN "w_catch" ELSE "w_lock")
    /\ calls' = IF Fits(v) THEN [calls EXCEPT !.ok = @ + 1]
                ELSE [calls EXCEPT !.fail = @ + 1]
    /\ UNCHANGED <<region, sem, tmp, timeout_ms, last_seq, elapsed, ret,
                   last_error, held, lastW, clean, afterFail, newAtCall, nSleeps, log,
                   life, loop>>

\* line 80
WLock(p) ==
    /\ pc[p] = "w_lock"
    /\ lock(p)
    /\ Goto(p, "w_hdr")
    /\ UNCHANGED <<region, op, data, serialized, tmp, timeout_ms, last_seq, elapsed,
                   ret, last_error, lastW, clean, afterFail, newAtCall, nSleeps, log, calls,
                   life, loop>>

\* lines 86-88: magic_number, version, data_size
WHeader(p) ==
    /\ pc[p] = "w_hdr"
    /\ magic_number' = MAGIC_NUMBER
    /\ version' = PROTOCOL_VERSION
    /\ data_size' = Len(serialized[p])
    /\ lastW' = [id |-> lastW.id + 1, by |-> p, v |-> data[p], intact |-> TRUE,
                 done |-> FALSE, failed |-> FALSE]
    /\ Touch
    /\ Goto(p, "w_seq_ld")
    /\ UNCHANGED <<sequence_number, timestamp, payload, sem, op, data, serialized,
                   tmp, timeout_ms, last_seq, elapsed, ret, last_error, held,
                   afterFail, newAtCall, nSleeps, log, calls, life, loop>>

\* line 89, header->sequence_number++: the load
WSeqLoad(p) ==
    /\ pc[p] = "w_seq_ld"
    /\ tmp' = [tmp EXCEPT ![p] = sequence_number]
    /\ Goto(p, "w_seq_st")
    /\ UNCHANGED <<region, sem, op, data, serialized, timeout_ms, last_seq, elapsed,
                   ret, last_error, history, life, loop>>

\* getCurrentTimestamp(), lines 383-387: a reading of the system clock, in
\* microseconds since the epoch.  The field is stored and never read back by
\* any operation, so one nonzero reading stands for every clock value.
getCurrentTimestamp == {1}

\* line 89, the store of the incremented value, and line 90, the timestamp
WSeqStore(p) ==
    /\ pc[p] = "w_seq_st"
    /\ sequence_number' = tmp[p] + 1
    /\ \E t \in getCurrentTimestamp : timestamp' = t
    /\ lastW' = Touched(p)
    /\ Touch
    /\ Goto(p, "w_copy")
    /\ UNCHANGED <<magic_number, version, data_size, payload, sem, op, data,
                   serialized, tmp, timeout_ms, last_seq, elapsed, ret,
                   last_error, held, afterFail, newAtCall, nSleeps, log, calls,
                   life, loop>>

\* Memcpy with the length one short
MemcpyOneShort(buf, src) ==
    [i \in 1..Len(buf) |-> IF i < Len(src) THEN src[i] ELSE buf[i]]

\* memcpy(data_ptr, src, n): the first n bytes of the buffer are overwritten
Memcpy(buf, src) ==
    [i \in 1..Len(buf) |-> IF i <= Len(src) THEN src[i] ELSE buf[i]]

\* lines 93-94
WCopy(p) ==
    /\ pc[p] = "w_copy"
    /\ payload' = Memcpy(payload, serialized[p])
    /\ lastW' = Touched(p)
    /\ log' = Append(log, [v |-> data[p], seq |-> tmp[p] + 1])
    /\ Touch
    /\ Goto(p, "w_unlock")
    /\ UNCHANGED <<magic_number, version, data_size, sequence_number, timestamp, sem,
                   op, data, serialized, tmp, timeout_ms, last_seq, elapsed,
                   ret, last_error, held, afterFail, newAtCall, nSleeps, calls,
                   life, loop>>

\* WUnlock without the unlock() of line 96
WUnlockMissing(p) ==
    /\ pc[p] = "w_unlock"
    /\ ret' = [ret EXCEPT ![p] = "true"]
    /\ lastW' = IF lastW.by = p THEN [lastW EXCEPT !.done = TRUE] ELSE lastW
    /\ Goto(p, "done")
    /\ UNCHANGED <<region, sem, held, op, data, serialized, tmp, timeout_ms, last_seq,
                   elapsed, last_error, clean, afterFail, newAtCall, nSleeps, log, calls,
                   life, loop>>

\* lines 96-97
WUnlock(p) ==
    /\ pc[p] = "w_unlock"
    /\ unlock(p)
    /\ ret' = [ret EXCEPT ![p] = "true"]
    /\ lastW' = IF lastW.by = p THEN [lastW EXCEPT !.done = TRUE] ELSE lastW
    /\ Goto(p, "done")
    /\ UNCHANGED <<region, op, data, serialized, tmp, timeout_ms, last_seq, elapsed,
                   last_error, clean, afterFail, newAtCall, nSleeps, log, calls,
                   life, loop>>

\* WCatch without the assignment to last_error_ of line 101
WCatchSilent(p) ==
    /\ pc[p] = "w_catch"
    /\ unlock(p)
    /\ ret' = [ret EXCEPT ![p] = "false"]
    /\ lastW' = [lastW EXCEPT !.failed = TRUE]
    /\ Goto(p, "done")
    /\ UNCHANGED <<region, op, data, serialized, tmp, timeout_ms, last_seq, elapsed,
                   last_error, clean, afterFail, newAtCall, nSleeps, log, calls,
                   life, loop>>

\* lines 99-103: the handler of the exception thrown at line 77
WCatch(p) ==
    /\ pc[p] = "w_catch"
    /\ unlock(p)
    /\ last_error' = [last_error EXCEPT ![p] = ErrTooLarge]
    /\ ret' = [ret EXCEPT ![p] = "false"]
    /\ lastW' = [lastW EXCEPT !.failed = TRUE]
    /\ Goto(p, "done")
    /\ UNCHANGED <<region, op, data, serialized, tmp, timeout_ms, last_seq, elapsed,
                   clean, afterFail, newAtCall, nSleeps, log, calls, life, loop>>

write(p) ==
    \/ WLock(p)
    \/ WHeader(p)
    \/ WSeqLoad(p)
    \/ WSeqStore(p)
    \/ WCopy(p)
    \/ WUnlock(p)
    \/ WCatch(p)

(***************************************************************************)
(* read(data), lines 111-151.                                              *)
(***************************************************************************)
CallRead(p) ==
    /\ pc[p] = "idle"
    /\ op' = [op EXCEPT ![p] = "read"]
    /\ clean' = [clean EXCEPT ![p] = Stable]
    /\ afterFail' = [afterFail EXCEPT ![p] = lastW.failed]
    /\ Goto(p, "r_lock")
    /\ UNCHANGED <<region, sem, data, serialized, tmp, timeout_ms, last_seq, elapsed,
                   ret, last_error, held, lastW, newAtCall, nSleeps, log, calls,
                   life, loop>>

\* line 113
RLock(p) ==
    /\ pc[p] = "r_lock"
    /\ lock(p)
    /\ Goto(p, "r_hdr")
    /\ UNCHANGED <<region, op, data, serialized, tmp, timeout_ms, last_seq, elapsed,
                   ret, last_error, lastW, clean, afterFail, newAtCall, nSleeps, log, calls,
                   life, loop>>

\* HeaderError without the magic check of lines 119-123
HeaderErrorNoMagic ==
    IF version # PROTOCOL_VERSION THEN ErrVersion
    ELSE IF data_size = 0 THEN ErrNoData
    ELSE ""

\* HeaderError with the version check of lines 125-129 before the magic check
HeaderErrorVersionFirst ==
    IF version # PROTOCOL_VERSION THEN ErrVersion
    ELSE IF magic_number # MAGIC_NUMBER THEN ErrMagic
    ELSE IF data_size = 0 THEN ErrNoData
    ELSE ""

\* lines 119-135: the error of the first header check that fails, "" if none
HeaderError ==
    IF magic_number # MAGIC_NUMBER THEN ErrMagic
    ELSE IF version # PROTOCOL_VERSION THEN ErrVersion
    ELSE IF data_size = 0 THEN ErrNoData
    ELSE ""

\* lines 119-135: validate the header; a failed check unlocks and returns false
RHeader(p) ==
    /\ pc[p] = "r_hdr"
    /\ IF HeaderError # ""
       THEN /\ unlock(p)
            /\ last_error' = [last_error EXCEPT ![p] = HeaderError]
            /\ ret' = [ret EXCEPT ![p] = "false"]
            /\ Goto(p, "done")
            /\ UNCHANGED tmp
       ELSE /\ tmp' = [tmp EXCEPT ![p] = data_size]
            /\ Goto(p, "r_copy")
            /\ UNCHANGED <<sem, held, last_error, ret>>
    /\ UNCHANGED <<region, op, data, serialized, timeout_ms, last_seq, elapsed,
                   lastW, clean, afterFail, newAtCall, nSleeps, log, calls, life, loop>>

\* BytesAt taking the whole buffer, whatever data_size says
BytesAtWholeBuffer(buf, n) == buf

\* std::string(data_ptr, n): n bytes from the start of the buffer (bytes past
\* the mapping are unknown)
BytesAt(buf, n) == [i \in 1..n |-> IF i <= Len(buf) THEN buf[i] ELSE "?"]

\* lines 138-141: copy data_size bytes and parse them.  data_size is loaded
\* again at line 139: the value checked at line 131 or the current one.
RCopy(p) ==
    /\ pc[p] = "r_copy"
    /\ \E n \in {tmp[p], data_size} :
         LET text == BytesAt(payload, n)
             r == Parse(text)
         IN
         /\ serialized' = [serialized EXCEPT ![p] = text]
         /\ IF r.ok
            THEN /\ data' = [data EXCEPT ![p] = r.v]
                 /\ Goto(p, "r_unlock")
            ELSE /\ Goto(p, "r_catch")
                 /\ UNCHANGED data
    /\ UNCHANGED <<region, sem, op, tmp, timeout_ms, last_seq, elapsed, ret,
                   last_error, history, life, loop>>

\* RUnlock that also marks the slot as consumed
RUnlockConsumes(p) ==
    /\ pc[p] = "r_unlock"
    /\ unlock(p)
    /\ data_size' = 0
    /\ ret' = [ret EXCEPT ![p] = "true"]
    /\ Goto(p, "done")
    /\ UNCHANGED <<magic_number, version, sequence_number, timestamp, payload, op,
                   data, serialized, tmp, timeout_ms, last_seq, elapsed,
                   last_error, lastW, clean, afterFail, newAtCall, nSleeps, log,
                   calls, life, loop>>

\* lines 143-144
RUnlock(p) ==
    /\ pc[p] = "r_unlock"
    /\ unlock(p)
    /\ ret' = [ret EXCEPT ![p] = "true"]
    /\ Goto(p, "done")
    /\ UNCHANGED <<region, op, data, serialized, tmp, timeout_ms, last_seq, elapsed,
                   last_error, lastW, clean, afterFail, newAtCall, nSleeps, log, calls,
                   life, loop>>

\* lines 146-150: the handler of json::parse's exception
RCatch(p) ==
    /\ pc[p] = "r_catch"
    /\ unlock(p)
    /\ last_error' = [last_error EXCEPT ![p] = ErrParse]
    /\ ret' = [ret EXCEPT ![p] = "false"]
    /\ Goto(p, "done")
    /\ UNCHANGED <<region, op, data, serialized, tmp, timeout_ms, last_seq, elapsed,
                   lastW, clean, afterFail, newAtCall, nSleeps, log, calls, life, loop>>

read(p) ==
    \/ RLock(p)
    \/ RHeader(p)
    \/ RCopy(p)
    \/ RUnlock(p)
    \/ RCatch(p)

(***************************************************************************)
(* readWithTimeout(data, timeout_ms, last_seq), lines 163-190.  elapsed[p] *)
(* is the latest reading of the steady clock, as time since `start`.       *)
(***************************************************************************)
\* lines 170-172: the poll's test for new data
NewData(s) ==
    /\ magic_number = MAGIC_NUMBER
    /\ data_size > 0
    /\ sequence_number > s

\* lines 163-164
CallReadWithTimeout(p, t, s) ==
    /\ pc[p] = "idle"
    /\ op' = [op EXCEPT ![p] = "readWithTimeout"]
    /\ timeout_ms' = [timeout_ms EXCEPT ![p] = t]
    /\ last_seq' = [last_seq EXCEPT ![p] = s]
    /\ clean' = [clean EXCEPT ![p] = Stable]
    /\ afterFail' = [afterFail EXCEPT ![p] = lastW.failed]
    /\ newAtCall' = [newAtCall EXCEPT ![p] = Stable /\ lastW.id > 0 /\ NewData(s)]
    /\ Goto(p, "t_lock")
    /\ UNCHANGED <<region, sem, data, serialized, tmp, elapsed, ret,
                   last_error, held, lastW, nSleeps, log, calls, life, loop>>

\* line 167
TLock(p) ==
    /\ pc[p] = "t_lock"
    /\ lock(p)
    /\ Goto(p, "t_check")
    /\ UNCHANGED <<region, op, data, serialized, tmp, timeout_ms, last_seq, elapsed,
                   ret, last_error, lastW, clean, afterFail, newAtCall, nSleeps, log, calls,
                   life, loop>>

\* lines 170-177: the poll and its unlock; new data goes on to read(data)
TCheck(p) ==
    /\ pc[p] = "t_check"
    /\ unlock(p)
    /\ Goto(p, IF NewData(last_seq[p]) THEN "r_lock" ELSE "t_deadline")
    /\ UNCHANGED <<region, op, data, serialized, tmp, timeout_ms, last_seq, elapsed,
                   ret, last_error, lastW, clean, afterFail, newAtCall, nSleeps, log, calls,
                   life, loop>>

\* the steady clock at a deadline check: not before the previous reading,
\* and a sleep between the two lasted at least PollInterval
ClockReadings(p) ==
    {e \in 0..MaxElapsed :
        e >= elapsed[p] + (IF nSleeps[p] > 0 THEN PollInterval ELSE 0)}

\* TDeadline with > for the >= of line 183
TDeadlineLate(p) ==
    /\ pc[p] = "t_deadline"
    /\ \E e \in ClockReadings(p) :
         /\ elapsed' = [elapsed EXCEPT ![p] = e]
         /\ IF e > timeout_ms[p]
            THEN /\ last_error' = [last_error EXCEPT ![p] = ErrTimeout]
                 /\ ret' = [ret EXCEPT ![p] = "false"]
                 /\ Goto(p, "done")
            ELSE /\ Goto(p, "t_sleep")
                 /\ UNCHANGED <<last_error, ret>>
    /\ UNCHANGED <<region, sem, op, data, serialized, tmp, timeout_ms, last_seq,
                   history, life, loop>>

\* TDeadline without the return of line 185
TDeadlineNoReturn(p) ==
    /\ pc[p] = "t_deadline"
    /\ \E e \in ClockReadings(p) :
         /\ elapsed' = [elapsed EXCEPT ![p] = e]
         /\ IF e >= timeout_ms[p]
            THEN /\ last_error' = [last_error EXCEPT ![p] = ErrTimeout]
                 /\ Goto(p, "t_sleep")
                 /\ UNCHANGED ret
            ELSE /\ Goto(p, "t_sleep")
                 /\ UNCHANGED <<last_error, ret>>
    /\ UNCHANGED <<region, sem, op, data, serialized, tmp, timeout_ms, last_seq,
                   history, life, loop>>

\* lines 179-186: the deadline check
TDeadline(p) ==
    /\ pc[p] = "t_deadline"
    /\ \E e \in ClockReadings(p) :
         /\ elapsed' = [elapsed EXCEPT ![p] = e]
         /\ IF e >= timeout_ms[p]
            THEN /\ last_error' = [last_error EXCEPT ![p] = ErrTimeout]
                 /\ ret' = [ret EXCEPT ![p] = "false"]
                 /\ Goto(p, "done")
            ELSE /\ Goto(p, "t_sleep")
                 /\ UNCHANGED <<last_error, ret>>
    /\ UNCHANGED <<region, sem, op, data, serialized, tmp, timeout_ms, last_seq,
                   history, life, loop>>

\* line 188: sleep_for(10 ms) returns
TSleep(p) ==
    /\ pc[p] = "t_sleep"
    /\ nSleeps' = [nSleeps EXCEPT ![p] = @ + 1]
    /\ Goto(p, "t_lock")
    /\ UNCHANGED <<region, sem, op, data, serialized, tmp, timeout_ms, last_seq,
                   elapsed, ret, last_error, held, lastW, clean, afterFail, newAtCall, log,
                   calls, life, loop>>

readWithTimeout(p) ==
    \/ TLock(p)
    \/ TCheck(p)
    \/ TDeadline(p)
    \/ TSleep(p)
    \/ read(p)

(***************************************************************************)
(* getSequenceNumber(), lines 195-201.                                     *)
(***************************************************************************)
CallGetSequenceNumber(p) ==
    /\ pc[p] = "idle"
    /\ op' = [op EXCEPT ![p] = "getSequenceNumber"]
    /\ clean' = [clean EXCEPT ![p] = Stable]
    /\ afterFail' = [afterFail EXCEPT ![p] = lastW.failed]
    /\ Goto(p, "g_lock")
    /\ UNCHANGED <<region, sem, data, serialized, tmp, timeout_ms, last_seq, elapsed,
                   ret, last_error, held, lastW, newAtCall, nSleeps, log, calls,
                   life, loop>>

\* line 196
GLock(p) ==
    /\ pc[p] = "g_lock"
    /\ lock(p)
    /\ Goto(p, "g_read")
    /\ UNCHANGED <<region, op, data, serialized, tmp, timeout_ms, last_seq, elapsed,
                   ret, last_error, lastW, clean, afterFail, newAtCall, nSleeps, log, calls,
                   life, loop>>

\* GRead with header->sequence_number++ for the load of line 198
GReadIncrements(p) ==
    /\ pc[p] = "g_read"
    /\ tmp' = [tmp EXCEPT ![p] = sequence_number]
    /\ sequence_number' = sequence_number + 1
    /\ unlock(p)
    /\ ret' = [ret EXCEPT ![p] = "value"]
    /\ Goto(p, "done")
    /\ UNCHANGED <<magic_number, version, data_size, timestamp, payload, op, data,
                   serialized, timeout_ms, last_seq, elapsed, last_error, lastW,
                   clean, afterFail, newAtCall, nSleeps, log, calls, life, loop>>

\* lines 198-200: tmp is the local `seq`, the value returned
GRead(p) ==
    /\ pc[p] = "g_read"
    /\ tmp' = [tmp EXCEPT ![p] = sequence_number]
    /\ unlock(p)
    /\ ret' = [ret EXCEPT ![p] = "value"]
    /\ Goto(p, "done")
    /\ UNCHANGED <<region, op, data, serialized, timeout_ms, last_seq, elapsed,
                   last_error, lastW, clean, afterFail, newAtCall, nSleeps, log, calls,
                   life, loop>>

getSequenceNumber(p) ==
    \/ GLock(p)
    \/ GRead(p)

\* the caller has looked at the result.  last_error_ is only looked at after
\* a call that failed, which has set it: what it held before is dropped here.
Finish(p) ==
    /\ pc[p] = "done"
    /\ Goto(p, "idle")
    /\ op' = [op EXCEPT ![p] = "none"]
    /\ data' = [data EXCEPT ![p] = Untouched]
    /\ serialized' = [serialized EXCEPT ![p] = <<>>]
    /\ tmp' = [tmp EXCEPT ![p] = 0]
    /\ timeout_ms' = [timeout_ms EXCEPT ![p] = 0]
    /\ last_seq' = [last_seq EXCEPT ![p] = 0]
    /\ elapsed' = [elapsed EXCEPT ![p] = 0]
    /\ ret' = [ret EXCEPT ![p] = "none"]
    /\ last_error' = [last_error EXCEPT ![p] = ""]
    /\ clean' = [clean EXCEPT ![p] = FALSE]
    /\ afterFail' = [afterFail EXCEPT ![p] = FALSE]
    /\ newAtCall' = [newAtCall EXCEPT ![p] = FALSE]
    /\ nSleeps' = [nSleeps EXCEPT ![p] = 0]
    /\ UNCHANGED <<region, sem, held, lastW, log, calls, life, loop>>

(***************************************************************************)
(* Spec: both handles call write, read and getSequenceNumber, in any       *)
(* order and interleaving.                                                 *)
(***************************************************************************)
Next ==
    \E p \in Procs :
        \/ \E v \in Values : CallWrite(p, v)
        \/ CallRead(p)
        \/ CallGetSequenceNumber(p)
        \/ write(p)
        \/ read(p)
        \/ getSequenceNumber(p)
        \/ Finish(p)

Spec == Init /\ [][Next]_vars

(***************************************************************************)
(* SpecWait: the writer and reader programs of the examples.  The owner    *)
(* writes; the attacher reads, polls with readWithTimeout and asks for the *)
(* sequence number.                                                        *)
(***************************************************************************)
NextWait ==
    \/ \E v \in Values : CallWrite("owner", v)
    \/ write("owner")
    \/ \E t \in 0..MaxTimeout, s \in 0..MaxWrites :
         CallReadWithTimeout("attacher", t, s)
    \/ readWithTimeout("attacher")
    \/ CallRead("attacher")
    \/ CallGetSequenceNumber("attacher")
    \/ getSequenceNumber("attacher")
    \/ \E p \in Procs : Finish(p)

SpecWait == Init /\ [][NextWait]_vars

(***************************************************************************)
(* SpecPoll: a writer and a polling reader, both scheduled fairly.  The    *)
(* owner writes a value that fits or one that does not; the attacher       *)
(* waits with readWithTimeout.  A thread that can take a step of the call  *)
(* it is in takes it: the attacher's thread runs its loop, and the         *)
(* owner's thread, once inside write(), runs on to its return.             *)
(***************************************************************************)
PollValues == {JNum(3), TooLargeValue}

NextPoll ==
    \/ \E v \in PollValues : CallWrite("owner", v)
    \/ write("owner")
    \/ \E t \in 0..MaxTimeout, s \in 0..MaxWrites :
         CallReadWithTimeout("attacher", t, s)
    \/ readWithTimeout("attacher")
    \/ \E p \in Procs : Finish(p)

SpecPoll ==
    /\ Init
    /\ [][NextPoll]_vars
    /\ WF_vars(readWithTimeout("attacher"))
    /\ WF_vars(write("owner"))

(***************************************************************************)
(* SpecConsumer: the polling loop of the example reader and the example    *)
(* service against a writer.  The attacher's thread calls                  *)
(* readWithTimeout(command, T, last_cmd_seq); when that returns true it    *)
(* sets last_cmd_seq = getSequenceNumber() and processes the value; then   *)
(* it polls again.  The owner writes values that fit, so no call gets to   *)
(* an exception handler (lines 99-103, 146-150): their steps are left out. *)
(***************************************************************************)
ConsumerValues == {JNum(3), JNum(12)}

\* example_service.cpp line 30, example_reader.cpp line 23: the call
LoopPoll(t) ==
    /\ loop_pc = "poll"
    /\ CallReadWithTimeout("attacher", t, last_cmd_seq)

\* the call returned false: the next iteration
LoopFailed ==
    /\ loop_pc = "poll"
    /\ op["attacher"] = "readWithTimeout"
    /\ ret["attacher"] = "false"
    /\ Finish("attacher")

\* the call returned true: `command` holds the value
LoopReceived ==
    /\ loop_pc = "poll"
    /\ pc["attacher"] = "done"
    /\ op["attacher"] = "readWithTimeout"
    /\ ret["attacher"] = "true"
    /\ command' = data["attacher"]
    /\ loop_pc' = "seq"
    /\ UNCHANGED <<last_cmd_seq, core, life>>

\* line 31 (line 24 of the reader): the call of getSequenceNumber()
LoopGetSequenceNumber ==
    /\ loop_pc = "seq"
    /\ \/ op["attacher"] = "readWithTimeout" /\ Finish("attacher")
       \/ CallGetSequenceNumber("attacher")
       \/ getSequenceNumber("attacher")

\* line 31: the assignment of the returned number; processCommand follows
LoopAssign ==
    /\ loop_pc = "seq"
    /\ pc["attacher"] = "done"
    /\ op["attacher"] = "getSequenceNumber"
    /\ last_cmd_seq' = tmp["attacher"]
    /\ loop_pc' = "poll"
    /\ UNCHANGED <<command, core, life>>

\* the end of the iteration
LoopNext ==
    /\ loop_pc = "poll"
    /\ op["attacher"] = "getSequenceNumber"
    /\ Finish("attacher")

NextConsumer ==
    \/ \E v \in ConsumerValues : CallWrite("owner", v)
    \/ WLock("owner")
    \/ WHeader("owner")
    \/ WSeqLoad("owner")
    \/ WSeqStore("owner")
    \/ WCopy("owner")
    \/ WUnlock("owner")
    \/ Finish("owner")
    \/ \E t \in 0..MaxTimeout : LoopPoll(t)
    \/ TLock("attacher")
    \/ TCheck("attacher")
    \/ TDeadline("attacher")
    \/ TSleep("attacher")
    \/ RLock("attacher")
    \/ RHeader("attacher")
    \/ RCopy("attacher")
    \/ RUnlock("attacher")
    \/ LoopFailed
    \/ LoopReceived
    \/ LoopGetSequenceNumber
    \/ LoopAssign
    \/ LoopNext

SpecConsumer == Init /\ [][NextConsumer]_vars

(***************************************************************************)
(* SpecLife: the lifetime of the named objects and of the handle objects   *)
(* made under one name, from before the first open.  initPosix and cleanup *)
(* are followed call by call on the namespace; a memory object's header    *)
(* and payload are followed as the one value its slot holds (0 after the   *)
(* memset), and write() and read() as lock, store or load, unlock.         *)
(***************************************************************************)
\* the value a write() leaves in the slot: one value tells a written slot
\* from a zeroed one
LifeValues == {1}

LiveHandle(h) == hpc[h] = "open"

\* handle objects are constructed in the order of their names: which of the
\* interchangeable names the next constructor call gets makes no difference
HandleOrder == <<"h1", "h2", "h3">>
NextUnborn(h) ==
    /\ hpc[h] = "unborn"
    /\ \A i, j \in 1..Len(HandleOrder) :
         (i < j /\ HandleOrder[j] = h) => hpc[HandleOrder[i]] # "unborn"

\* CreateSem without the sem_unlink of line 309 and the O_EXCL of line 310: a
\* semaphore found under the name is opened as it is
CreateSemReuses(h) ==
    /\ NextUnborn(h)
    /\ is_creator_' = [is_creator_ EXCEPT ![h] = TRUE]
    /\ IF sem_name = 0
       THEN /\ nobj' = nobj + 1
            /\ sem_name' = nobj + 1
            /\ sem_count' = [sem_count EXCEPT ![nobj + 1] = 1]
            /\ sem_' = [sem_ EXCEPT ![h] = nobj + 1]
       ELSE /\ sem_' = [sem_ EXCEPT ![h] = sem_name]
            /\ UNCHANGED <<nobj, sem_name, sem_count>>
    /\ hpc' = [hpc EXCEPT ![h] = "init_shm"]
    /\ UNCHANGED <<shm_name, bytes, mapped_ptr_, cs, seen, nfail, released, core, loop>>

\* lines 308-310, create: sem_unlink, then sem_open(O_CREAT | O_EXCL, 1)
CreateSem(h) ==
    /\ NextUnborn(h)
    /\ is_creator_' = [is_creator_ EXCEPT ![h] = TRUE]
    /\ nobj' = nobj + 1
    /\ sem_name' = nobj + 1
    /\ sem_count' = [sem_count EXCEPT ![nobj + 1] = 1]
    /\ sem_' = [sem_ EXCEPT ![h] = nobj + 1]
    /\ hpc' = [hpc EXCEPT ![h] = "init_shm"]
    /\ UNCHANGED <<shm_name, bytes, mapped_ptr_, cs, seen, nfail, released, core, loop>>

\* AttachSem with O_CREAT in sem_open's flags
AttachSemCreates(h) ==
    /\ NextUnborn(h)
    /\ is_creator_' = [is_creator_ EXCEPT ![h] = FALSE]
    /\ IF sem_name = 0
       THEN /\ nobj' = nobj + 1
            /\ sem_name' = nobj + 1
            /\ sem_count' = [sem_count EXCEPT ![nobj + 1] = 1]
            /\ sem_' = [sem_ EXCEPT ![h] = nobj + 1]
       ELSE /\ sem_' = [sem_ EXCEPT ![h] = sem_name]
            /\ UNCHANGED <<nobj, sem_name, sem_count>>
    /\ hpc' = [hpc EXCEPT ![h] = "init_shm"]
    /\ UNCHANGED <<shm_name, bytes, mapped_ptr_, cs, seen, nfail, released, core, loop>>

\* lines 311-317, attach: sem_open(name, 0), which throws when the name is absent
AttachSem(h) ==
    /\ NextUnborn(h)
    /\ is_creator_' = [is_creator_ EXCEPT ![h] = FALSE]
    /\ IF sem_name = 0
       THEN /\ hpc' = [hpc EXCEPT ![h] = "failed"]
            /\ UNCHANGED sem_
       ELSE /\ sem_' = [sem_ EXCEPT ![h] = sem_name]
            /\ hpc' = [hpc EXCEPT ![h] = "init_shm"]
    /\ UNCHANGED <<sem_name, shm_name, nobj, sem_count, bytes, mapped_ptr_, cs, seen,
                   nfail, released, core, loop>>

\* lines 320-332 and 342-351, create: shm_unlink, shm_open(O_CREAT), ftruncate,
\* mmap, memset.  The new object is the one made with this owner's semaphore.
CreateShm(h) ==
    /\ hpc[h] = "init_shm"
    /\ is_creator_[h]
    /\ shm_name' = sem_[h]
    /\ bytes' = [bytes EXCEPT ![sem_[h]] = 0]
    /\ mapped_ptr_' = [mapped_ptr_ EXCEPT ![h] = sem_[h]]
    /\ hpc' = [hpc EXCEPT ![h] = "open"]
    /\ UNCHANGED <<sem_name, nobj, sem_count, is_creator_, sem_, cs, seen, nfail,
                   released, core, loop>>

\* lines 333-347, attach: shm_open(O_RDWR), which closes the semaphore and
\* throws when the name is absent, then mmap
AttachShm(h) ==
    /\ hpc[h] = "init_shm"
    /\ ~is_creator_[h]
    /\ IF shm_name = 0
       THEN /\ hpc' = [hpc EXCEPT ![h] = "failed"]
            /\ released' = [released EXCEPT ![h].sem = @ + 1]
            /\ UNCHANGED mapped_ptr_
       ELSE /\ mapped_ptr_' = [mapped_ptr_ EXCEPT ![h] = shm_name]
            /\ hpc' = [hpc EXCEPT ![h] = "open"]
            /\ UNCHANGED released
    /\ UNCHANGED <<sem_name, shm_name, nobj, sem_count, bytes, is_creator_, sem_, cs,
                   seen, nfail, core, loop>>

initPosix(h) ==
    \/ CreateSem(h)
    \/ AttachSem(h)
    \/ CreateShm(h)
    \/ AttachShm(h)

\* lines 363-372: munmap, close, and for a creator shm_unlink of the name.
\* The destructor runs between calls, never inside one.  The members keep
\* their values: cleanup() assigns none of them.
CleanupShm(h) ==
    /\ hpc[h] = "open"
    /\ cs[h] = "out"
    /\ shm_name' = IF is_creator_[h] THEN 0 ELSE shm_name
    /\ released' = [released EXCEPT ![h].map = @ + 1]
    /\ hpc' = [hpc EXCEPT ![h] = "closing"]
    /\ UNCHANGED <<sem_name, nobj, sem_count, bytes, is_creator_, sem_, mapped_ptr_,
                   cs, seen, nfail, core, loop>>

\* lines 373-379: sem_close, and for a creator sem_unlink of the name
CleanupSem(h) ==
    /\ hpc[h] = "closing"
    /\ sem_name' = IF is_creator_[h] THEN 0 ELSE sem_name
    /\ released' = [released EXCEPT ![h].sem = @ + 1]
    /\ hpc' = [hpc EXCEPT ![h] = "closed"]
    /\ UNCHANGED <<shm_name, nobj, sem_count, bytes, is_creator_, sem_, mapped_ptr_,
                   cs, seen, nfail, core, loop>>

cleanup(h) ==
    \/ CleanupShm(h)
    \/ CleanupSem(h)

\* lock() at lines 80 and 113, on the handle's own semaphore
LifeLock(h, f) ==
    /\ LiveHandle(h)
    /\ cs[h] = "out"
    /\ sem_count[sem_[h]] > 0
    /\ sem_count' = [sem_count EXCEPT ![sem_[h]] = @ - 1]
    /\ cs' = [cs EXCEPT ![h] = f]
    /\ UNCHANGED <<sem_name, shm_name, nobj, bytes, hpc, is_creator_, sem_,
                   mapped_ptr_, seen, nfail, released, core, loop>>

\* lines 83-97: write()'s stores into the handle's own mapping, and unlock()
LifeStore(h, v) ==
    /\ cs[h] = "write"
    /\ bytes' = [bytes EXCEPT ![mapped_ptr_[h]] = v]
    /\ sem_count' = [sem_count EXCEPT ![sem_[h]] = @ + 1]
    /\ cs' = [cs EXCEPT ![h] = "out"]
    /\ UNCHANGED <<sem_name, shm_name, nobj, hpc, is_creator_, sem_, mapped_ptr_,
                   seen, nfail, released, core, loop>>

\* lines 116-144: read()'s loads from the handle's own mapping, and unlock()
LifeLoad(h) ==
    /\ cs[h] = "read"
    /\ seen' = [seen EXCEPT ![h] = bytes[mapped_ptr_[h]]]
    /\ sem_count' = [sem_count EXCEPT ![sem_[h]] = @ + 1]
    /\ cs' = [cs EXCEPT ![h] = "out"]
    /\ UNCHANGED <<sem_name, shm_name, nobj, bytes, hpc, is_creator_, sem_,
                   mapped_ptr_, nfail, released, core, loop>>

\* lines 76-78 and 99-103: a write() of a text that is too large throws before
\* lock() and its handler calls unlock()
LifeWriteTooLarge(h) ==
    /\ LiveHandle(h)
    /\ cs[h] = "out"
    /\ nfail < MaxLifeFail
    /\ nfail' = nfail + 1
    /\ sem_count' = [sem_count EXCEPT ![sem_[h]] = @ + 1]
    /\ UNCHANGED <<sem_name, shm_name, nobj, bytes, hpc, is_creator_, sem_,
                   mapped_ptr_, cs, seen, released, core, loop>>

NextLife ==
    \E h \in Handles :
        \/ initPosix(h)
        \/ cleanup(h)
        \/ \E f \in {"write", "read"} : LifeLock(h, f)
        \/ \E v \in LifeValues : LifeStore(h, v)
        \/ LifeLoad(h)
        \/ LifeWriteTooLarge(h)

SpecLife == Init /\ [][NextLife]_vars

(***************************************************************************)
(* SpecClose: SpecLife, and cleanup() run a second time on a handle object *)
(* it has run on (the destructor is its only caller, lines 59-61).  The    *)
(* first run assigned no member, so the second run tests at lines 363, 366 *)
(* and 373 the values the first run tested.  What munmap, close and        *)
(* sem_close do with a mapping, a descriptor and a semaphore that are gone *)
(* is left open: the release is counted, and the unlinks, which go by      *)
(* name, are followed.  A constructor that throws runs no destructor: the  *)
(* handle's teardown is then the sem_close in initPosix (line 336).        *)
(***************************************************************************)
\* lines 363-372, again
CleanupShmAgain(h) ==
    /\ hpc[h] = "closed"
    /\ IF mapped_ptr_[h] # 0
       THEN /\ released' = [released EXCEPT ![h].map = @ + 1]
            /\ shm_name' = IF is_creator_[h] THEN 0 ELSE shm_name
       ELSE UNCHANGED <<released, shm_name>>
    /\ hpc' = [hpc EXCEPT ![h] = "closing_again"]
    /\ UNCHANGED <<sem_name, nobj, sem_count, bytes, is_creator_, sem_, mapped_ptr_,
                   cs, seen, nfail, core, loop>>

\* lines 373-379, again
CleanupSemAgain(h) ==
    /\ hpc[h] = "closing_again"
    /\ IF sem_[h] # 0
       THEN /\ released' = [released EXCEPT ![h].sem = @ + 1]
            /\ sem_name' = IF is_creator_[h] THEN 0 ELSE sem_name
       ELSE UNCHANGED <<released, sem_name>>
    /\ hpc' = [hpc EXCEPT ![h] = "closed_again"]
    /\ UNCHANGED <<shm_name, nobj, sem_count, bytes, is_creator_, sem_, mapped_ptr_,
                   cs, seen, nfail, core, loop>>

NextClose ==
    \/ NextLife
    \/ \E h \in Handles :
         \/ CleanupShmAgain(h)
         \/ CleanupSemAgain(h)

SpecClose == Init /\ [][NextClose]_vars

(***************************************************************************)
(* SpecHeader: read() on any header an attaching handle can find in the    *)
(* mapped memory.  The memory object is opened by name (line 334) and may  *)
(* hold what a write() that halted between its header stores (lines 86-88) *)
(* left, or what a participant built with another PROTOCOL_VERSION wrote.  *)
(***************************************************************************)
\* a version field that another build of the library stores
OtherVersion == PROTOCOL_VERSION + 1

\* payload buffers: zeroed, a one-byte text with a zero byte after it, and a
\* two-byte text
PayloadImages == {ZeroedPayload, <<"3", "NUL">>, <<"{", "}">>}

InitHeader ==
    /\ magic_number \in {0, MAGIC_NUMBER}
    /\ version \in {0, PROTOCOL_VERSION, OtherVersion}
    /\ data_size \in 0..Capacity
    /\ sequence_number \in {0, 1}
    /\ timestamp = 0
    /\ payload \in PayloadImages
    /\ sem = 1
    /\ pc = [p \in Procs |-> "idle"]
    /\ op = [p \in Procs |-> "none"]
    /\ data = [p \in Procs |-> Untouched]
    /\ serialized = [p \in Procs |-> <<>>]
    /\ tmp = [p \in Procs |-> 0]
    /\ timeout_ms = [p \in Procs |-> 0]
    /\ last_seq = [p \in Procs |-> 0]
    /\ elapsed = [p \in Procs |-> 0]
    /\ ret = [p \in Procs |-> "none"]
    /\ last_error = [p \in Procs |-> ""]
    /\ held = [p \in Procs |-> FALSE]
    /\ lastW = NoWrite
    /\ clean = [p \in Procs |-> FALSE]
    /\ afterFail = [p \in Procs |-> FALSE]
    /\ newAtCall = [p \in Procs |-> FALSE]
    /\ nSleeps = [p \in Procs |-> 0]
    /\ log = <<>>
    /\ calls = [ok |-> 0, fail |-> 0]
    /\ sem_name = 0
    /\ shm_name = 0
    /\ nobj = 0
    /\ sem_count = [k \in Objects |-> 0]
    /\ bytes = [k \in Objects |-> 0]
    /\ hpc = [h \in Handles |-> "unborn"]
    /\ is_creator_ = [h \in Handles |-> FALSE]
    /\ sem_ = [h \in Handles |-> 0]
    /\ mapped_ptr_ = [h \in Handles |-> 0]
    /\ cs = [h \in Handles |-> "out"]
    /\ seen = [h \in Handles |-> 0]
    /\ nfail = 0
    /\ released = [h \in Handles |-> [map |-> 0, sem |-> 0]]
    /\ last_cmd_seq = 0
    /\ command = Untouched
    /\ loop_pc = "poll"

NextHeader ==
    \E p \in Procs :
        \/ CallRead(p)
        \/ read(p)
        \/ Finish(p)

SpecHeader == InitHeader /\ [][NextHeader]_vars


(***************************************************************************)
(* Properties.                                                             *)
(***************************************************************************)
\* a write() call that passed the size check and has not returned
InWrite(p) == pc[p] \in {"w_lock", "w_hdr", "w_seq_ld", "w_seq_st", "w_copy", "w_unlock"}
NoWriteRunning == \A p \in Procs : ~InWrite(p)
Returned(p, f) == pc[p] = "done" /\ op[p] = f
\* the slot: the first data_size bytes of the payload buffer
Slot == BytesAt(payload, data_size)

\* C1: mutual exclusion.  In every reachable state at most one handle is
\* between lock() and unlock(), whatever calls were made before, including
\* write calls that failed because the payload was too large.
MutualExclusion == Cardinality({p \in Procs : held[p]}) <= 1

\* C2: no torn reads.  Every read() that returns true returns the value of
\* one write that copied its whole payload, read with that write's data_size:
\* never the header of one write with the payload of another.
NoTornRead ==
    \A p \in Procs :
        (Returned(p, "read") /\ ret[p] = "true") =>
            \E i \in DOMAIN log :
                /\ data[p] = log[i].v
                /\ Len(serialized[p]) = Len(Dump(log[i].v))

\* C3: round trip.  A read() through either handle that starts after a
\* successful write(V) has returned, with no other write touching the region
\* from that write's first store until the read returns, returns true with a
\* value equal to V.
RoundTrip ==
    \A p \in Procs :
        (Returned(p, "read") /\ clean[p] /\ lastW.id > 0) =>
            (ret[p] = "true" /\ data[p] = lastW.v)

\* C3's case: the attacher has read back the empty object the owner wrote.
RoundTripWitness ==
    /\ Returned("attacher", "read")
    /\ clean["attacher"]
    /\ lastW.by = "owner"
    /\ lastW.v = JObj(<<>>, <<>>)
    /\ data["attacher"] = JObj(<<>>, <<>>)

\* C4: the sequence number counts the successful writes.  It is 0 on the
\* fresh region; whenever no write is running it equals the number of
\* write() calls that succeeded, each having raised it by exactly one; and
\* getSequenceNumber() returns the current value.
SequenceCountsWrites ==
    /\ NoWriteRunning => sequence_number = calls.ok
    /\ \A p \in Procs :
         (Returned(p, "getSequenceNumber") /\ clean[p]) => tmp[p] = sequence_number


\* a write() call whose text does not fit the region
TooLargeWrite(p) == op[p] = "write" /\ ~Fits(data[p])

\* C5: a write(V) whose text is longer than the capacity takes the failure
\* path only, returns false with the too-large message, and none of its steps
\* changes magic, version, data_size, sequence_number, timestamp or payload;
\* a read() that starts after it returned, no write touching the region in
\* between, gives what it gave before: the prior value, or failure on a
\* region never written.
OversizeWriteFails ==
    /\ [](\A p \in Procs :
            /\ TooLargeWrite(p) =>
                 /\ pc[p] \in {"w_catch", "done"}
                 /\ pc[p] = "done" => (ret[p] = "false" /\ last_error[p] = ErrTooLarge)
            /\ (Returned(p, "read") /\ clean[p] /\ afterFail[p]) =>
                 IF lastW.id > 0 THEN ret[p] = "true" /\ data[p] = lastW.v
                 ELSE ret[p] = "false" /\ data[p] = Untouched)
    /\ [][\A p \in Procs :
            (TooLargeWrite(p)' /\ pc'[p] # pc[p]) => region' = region]_vars

\* C5's case: a write that was too large has returned, and a read that
\* started after it has returned the value written before it.
OversizeWriteWitness ==
    \E p, q \in Procs :
        /\ Returned(p, "write") /\ TooLargeWrite(p)
        /\ Returned(q, "read") /\ clean[q] /\ afterFail[q]
        /\ lastW.id > 0
        /\ data[q] = lastW.v

\* C6: whenever a write() call has returned, true or false, the calling
\* handle is not between lock() and unlock().
WriteReleasesLock == \A p \in Procs : Returned(p, "write") => ~held[p]

\* C6's case: one write has returned true and another has returned false.
WriteReleasesLockWitness ==
    \E p, q \in Procs :
        /\ Returned(p, "write") /\ ret[p] = "true"
        /\ Returned(q, "write") /\ ret[q] = "false"

\* C7: read() on a region that no write has touched returns false with the
\* not-initialized message and leaves the caller's value alone, through the
\* owner's handle and through the attacher's.
ReadBeforeWrite ==
    \A p \in Procs :
        (Returned(p, "read") /\ lastW.id = 0) =>
            /\ ret[p] = "false"
            /\ last_error[p] = ErrMagic
            /\ data[p] = Untouched

\* C7's case: both handles have read the region before any write.
ReadBeforeWriteWitness ==
    /\ lastW.id = 0
    /\ \A p \in Procs : Returned(p, "read") /\ ret[p] = "false"

\* C8: last writer wins.  Once a write has completed with no other write's
\* stores mixed in, the slot is exactly its text, whatever the writes before
\* it left in the buffer, and a read() of that image copies exactly that text
\* and returns that value.
LastWriterWins ==
    /\ (Stable /\ lastW.id > 0) => Slot = Dump(lastW.v)
    /\ \A p \in Procs :
         (Returned(p, "read") /\ clean[p] /\ lastW.id > 0) =>
             (serialized[p] = Dump(lastW.v) /\ data[p] = lastW.v)

\* C8's case: a shorter value was written over a longer one, whose last byte
\* is still in the buffer, and a read has returned the shorter value.
LastWriterWinsWitness ==
    \E p \in Procs :
        /\ Returned(p, "read") /\ clean[p]
        /\ lastW.id >= 2
        /\ data_size < Capacity
        /\ payload[Capacity] # "NUL"
        /\ data[p] = lastW.v

\* C9: writes are totally ordered.  When no write is running and k writes
\* have succeeded, the sequence number is k, the writes stored the k
\* distinct numbers 1..k, and the slot holds the text of the write that
\* stored k.
WritesTotallyOrdered ==
    NoWriteRunning =>
        LET k == Len(log) IN
        /\ sequence_number = k
        /\ {log[i].seq : i \in 1..k} = 1..k
        /\ k > 0 => \E i \in 1..k : log[i].seq = k /\ Slot = Dump(log[i].v)

\* a readWithTimeout call that has returned, called with last_seq equal to
\* the sequence number, no write having touched the region during the call
Undisturbed(p) ==
    /\ Returned(p, "readWithTimeout")
    /\ clean[p]
    /\ last_seq[p] = sequence_number

\* C10 as stated: such a call returns false with the timeout message, no
\* earlier than timeout_ms after it started and no later than timeout_ms plus
\* one poll interval.
TimeoutWithinOnePoll ==
    \A p \in Procs :
        Undisturbed(p) =>
            /\ ret[p] = "false"
            /\ last_error[p] = ErrTimeout
            /\ elapsed[p] >= timeout_ms[p]
            /\ elapsed[p] <= timeout_ms[p] + PollInterval

\* C10 as amended: such a call returns false with the timeout message, no
\* earlier than timeout_ms after it started, and the sleeps it asked for add
\* up to less than timeout_ms plus one poll interval.
TimeoutNotEarly ==
    \A p \in Procs :
        Undisturbed(p) =>
            /\ ret[p] = "false"
            /\ last_error[p] = ErrTimeout
            /\ elapsed[p] >= timeout_ms[p]
            /\ nSleeps[p] * PollInterval < timeout_ms[p] + PollInterval

\* C10's case: a call with a positive timeout has slept and then timed out,
\* its last clock reading later than timeout_ms plus one poll interval.
TimeoutNotEarlyWitness ==
    \E p \in Procs :
        /\ Undisturbed(p)
        /\ timeout_ms[p] > 0
        /\ nSleeps[p] > 0
        /\ elapsed[p] > timeout_ms[p] + PollInterval

\* C11: a write that raises the sequence number above last_seq while a
\* readWithTimeout call with a positive timeout is waiting, its latest clock
\* reading still before timeout_ms, is detected: the call does not return
\* with the timeout message while that new data is in the region.
WriteDetectedBeforeTimeout ==
    [][\A p \in Procs :
         (/\ pc[p] = "t_deadline"
          /\ pc'[p] = "done"
          /\ timeout_ms[p] > 0
          /\ elapsed[p] < timeout_ms[p]
          /\ NoWriteRunning)
         => ~NewData(last_seq[p])]_vars

\* C12: readWithTimeout(last_seq = s) called on a region that holds a
\* written value and a sequence number greater than s succeeds on its first
\* poll: it never gets to a deadline check or a sleep, and it returns true.
FirstPollSucceeds ==
    \A p \in Procs :
        (op[p] = "readWithTimeout" /\ newAtCall[p]) =>
            /\ nSleeps[p] = 0
            /\ pc[p] \notin {"t_deadline", "t_sleep"}
            /\ pc[p] = "done" => ret[p] = "true"

\* C13: snapshot consistency.  The handles that each read() a region that a
\* write has completed on, no write touching it while they read, all return
\* true, in any interleaving of their steps, and all hold the same value:
\* the one last written.
SnapshotConsistency ==
    \A p, q \in Procs :
        (/\ Returned(p, "read") /\ clean[p]
         /\ Returned(q, "read") /\ clean[q]
         /\ lastW.id > 0)
        => /\ ret[p] = "true"
           /\ ret[q] = "true"
           /\ data[p] = data[q]
           /\ data[q] = lastW.v

\* C13's case: after exactly one write, by the owner, both handles have read
\* the region and hold its value.
SnapshotConsistencyWitness ==
    /\ calls.ok = 1 /\ lastW.id = 1 /\ lastW.by = "owner"
    /\ \A p \in Procs : Returned(p, "read") /\ clean[p] /\ data[p] = JArr(<<>>)

\* C14: a write(V) whose text is no longer than the capacity, equal to it
\* included, never takes the failure path and, once it has the lock and has
\* run to its return, returns true with no error set, whatever the region
\* held before.
FittingWriteSucceeds ==
    \A p \in Procs :
        (op[p] = "write" /\ Len(Dump(data[p])) <= Capacity) =>
            /\ pc[p] # "w_catch"
            /\ pc[p] = "done" => (ret[p] = "true" /\ last_error[p] = "")

\* C14's case: a write of a text exactly as long as the capacity has returned
\* true on a region that held a shorter value from an earlier write.
FittingWriteSucceedsWitness ==
    \E p \in Procs :
        /\ Returned(p, "write") /\ ret[p] = "true"
        /\ Len(Dump(data[p])) = Capacity
        /\ Len(log) = 2 /\ Len(Dump(log[1].v)) < Capacity /\ log[2].v = data[p]

\* the functions that only read the region
ReadOnlyCalls == {"read", "readWithTimeout", "getSequenceNumber"}

\* C15: mutations happen only inside write().  No step of a read(), a
\* readWithTimeout() (its polls, deadline checks, sleeps and the read() it
\* ends with) or a getSequenceNumber() call changes magic, version,
\* data_size, sequence_number, timestamp or payload.
ReadersLeaveRegion ==
    [][\A p \in Procs :
         ((op[p] \in ReadOnlyCalls \/ op'[p] \in ReadOnlyCalls) /\ pc'[p] # pc[p])
         => region' = region]_vars

\* C15's case: a readWithTimeout call has slept, polled again and timed out
\* on a region that holds a written value.
ReadersLeaveRegionWitness ==
    /\ Returned("attacher", "readWithTimeout")
    /\ last_error["attacher"] = ErrTimeout
    /\ nSleeps["attacher"] > 0
    /\ Stable /\ lastW.id > 0
    /\ sequence_number = 1
    /\ Slot = Dump(lastW.v)

\* C16: teardown is role-asymmetric.  A cleanup() step removes a name from
\* the namespace only when its handle is a creator and the name denotes the
\* very object that handle created; an attacher's cleanup() removes nothing.
TeardownRemovesOwnObjects ==
    [][\A h \in Handles :
         /\ (hpc[h] = "open" /\ hpc'[h] = "closing" /\ shm_name' # shm_name)
            => (is_creator_[h] /\ shm_name = mapped_ptr_[h])
         /\ (hpc[h] = "closing" /\ hpc'[h] = "closed" /\ sem_name' # sem_name)
            => (is_creator_[h] /\ sem_name = sem_[h])]_vars

\* C17: once an owner's teardown is done, its objects are no longer found
\* under the name, while the handles that attached to them before keep them:
\* no two of those handles are inside a write() or read() at once.
SurvivorsAfterTeardown ==
    \A o \in Handles :
        (hpc[o] = "closed" /\ is_creator_[o]) =>
            /\ sem_name # sem_[o]
            /\ shm_name # mapped_ptr_[o]
            /\ \A h, g \in Handles :
                 (/\ h # g
                  /\ LiveHandle(h) /\ LiveHandle(g)
                  /\ sem_[h] = sem_[o] /\ sem_[g] = sem_[o]
                  /\ mapped_ptr_[h] = mapped_ptr_[o]
                  /\ mapped_ptr_[g] = mapped_ptr_[o])
                 => ~(cs[h] # "out" /\ cs[g] # "out")

\* C18: a region exists once per name.  All live handles made under the name
\* have the same memory object mapped and the same semaphore open.
OneRegionPerName ==
    \A h, g \in Handles :
        (LiveHandle(h) /\ LiveHandle(g)) =>
            (mapped_ptr_[h] = mapped_ptr_[g] /\ sem_[h] = sem_[g])

\* C19: an attach started when the semaphore's name is absent, or reaching
\* shm_open when the memory's name is absent, fails; and no step of an attach
\* creates an object or changes what the names denote.
AttachNeedsPublishedNames ==
    [][\A h \in Handles :
         /\ (hpc[h] = "unborn" /\ hpc'[h] # "unborn" /\ ~is_creator_'[h])
            => /\ <<sem_name, shm_name, nobj>>' = <<sem_name, shm_name, nobj>>
               /\ sem_name = 0 => hpc'[h] = "failed"
         /\ (hpc[h] = "init_shm" /\ hpc'[h] # "init_shm" /\ ~is_creator_[h])
            => /\ <<sem_name, shm_name, nobj>>' = <<sem_name, shm_name, nobj>>
               /\ shm_name = 0 => hpc'[h] = "failed"]_vars

\* C19's case: with no owner ever, two attaches in a row have failed, the
\* first having left nothing for the second to find.
AttachNeedsPublishedNamesWitness ==
    /\ nobj = 0
    /\ hpc["h1"] = "failed"
    /\ hpc["h2"] = "failed"
    /\ sem_name = 0 /\ shm_name = 0

\* the messages a failing call of each function can leave in last_error_
Causes(f) ==
    IF f = "write" THEN {ErrTooLarge}
    ELSE IF f = "read" THEN {ErrMagic, ErrVersion, ErrNoData, ErrParse}
    ELSE {ErrMagic, ErrVersion, ErrNoData, ErrParse, ErrTimeout}

InRead(p) == pc[p] \in {"r_hdr", "r_copy", "r_unlock", "r_catch"}

\* C21: read() validates the header in a fixed order under the lock.  On a
\* header that stays as it is during the call: a wrong magic gives the
\* not-initialized message; otherwise a version other than PROTOCOL_VERSION
\* gives the version message; otherwise data_size = 0 gives the no-data
\* message; only a header that passes all three has its payload copied and
\* parsed.  The checks and the copy run with the lock held, and a read that
\* failed a check has released the lock and left the caller's value alone.
HeaderChecksInOrder ==
    \A p \in Procs :
        /\ InRead(p) => held[p]
        /\ pc[p] \in {"r_copy", "r_unlock", "r_catch"} => HeaderError = ""
        /\ Returned(p, "read") =>
             /\ ~held[p]
             /\ IF magic_number # MAGIC_NUMBER
                THEN ret[p] = "false" /\ last_error[p] = ErrMagic /\ data[p] = Untouched
                ELSE IF version # PROTOCOL_VERSION
                THEN ret[p] = "false" /\ last_error[p] = ErrVersion /\ data[p] = Untouched
                ELSE IF data_size = 0
                THEN ret[p] = "false" /\ last_error[p] = ErrNoData /\ data[p] = Untouched
                ELSE LET r == Parse(BytesAt(payload, data_size)) IN
                     IF r.ok THEN ret[p] = "true" /\ data[p] = r.v
                     ELSE ret[p] = "false" /\ last_error[p] = ErrParse

\* C21's case: on a header with the right magic and another build's version,
\* and on it a data_size of 0, one handle's read has returned the version
\* message while the other is at its header checks.
HeaderChecksInOrderWitness ==
    /\ magic_number = MAGIC_NUMBER /\ version = OtherVersion /\ data_size = 0
    /\ Returned("owner", "read") /\ last_error["owner"] = ErrVersion
    /\ pc["attacher"] = "r_hdr"


\* C22: with one capacity on all handles, data_size is between 0 and the
\* capacity in every reachable state, and the bytes a read() copies all lie
\* in the payload buffer: it copies at most Capacity bytes and none from
\* past the mapping.
DataSizeWithinCapacity ==
    /\ data_size \in 0..Capacity
    /\ Len(payload) = Capacity
    /\ \A p \in Procs :
         op[p] = "read" =>
             /\ Len(serialized[p]) <= Capacity
             /\ \A i \in 1..Len(serialized[p]) : serialized[p][i] # "?"

\* C22's case: a write that was too large has been turned away, data_size is
\* the capacity itself, and a read has copied that many bytes.
DataSizeWithinCapacityWitness ==
    \E p \in Procs :
        /\ calls.fail > 0
        /\ data_size = Capacity
        /\ Returned(p, "read") /\ ret[p] = "true"
        /\ Len(serialized[p]) = Capacity


FailedWriteKeepsCount ==
    /\ [](/\ sem \in {0, 1}
          /\ sem = 1 - Cardinality({p \in Procs : held[p]}))
    /\ [][\A p \in Procs :
            (TooLargeWrite(p)' /\ pc'[p] # pc[p]) => sem' = sem]_vars


\* C25: whenever readWithTimeout(last_seq = s) returns true, the value it
\* returns is the payload of a write that stored a sequence number greater
\* than s, whatever writes ran between its poll and its read().
SuccessReturnsNewerWrite ==
    \A p \in Procs :
        (Returned(p, "readWithTimeout") /\ ret[p] = "true") =>
            \E i \in DOMAIN log :
                /\ log[i].seq > last_seq[p]
                /\ data[p] = log[i].v


\* C26: readWithTimeout returns with the timeout message only from the
\* deadline check that directly follows a poll, made with the lock held,
\* that found no new data; a sleep is followed by a poll, never by a
\* deadline check, and a poll that finds new data goes on to read() whatever
\* the clock says.  With timeout_ms = 0 the call polls exactly once, never
\* sleeping, and fails only with the timeout message: if its poll found new
\* data it returns true.
TimeoutOnlyAfterEmptyPoll ==
    /\ [](\A p \in Procs :
            (op[p] = "readWithTimeout" /\ timeout_ms[p] = 0) =>
                /\ nSleeps[p] = 0
                /\ (pc[p] = "done" /\ ret[p] = "false") => last_error[p] = ErrTimeout)
    /\ [][\A p \in Procs :
            /\ (pc'[p] = "t_deadline" /\ pc[p] # "t_deadline")
               => (pc[p] = "t_check" /\ held[p] /\ ~NewData(last_seq[p]))
            /\ (/\ op[p] = "readWithTimeout" /\ pc[p] # "done" /\ pc'[p] = "done"
                /\ last_error'[p] = ErrTimeout)
               => pc[p] = "t_deadline"
            /\ (pc[p] = "t_sleep" /\ pc'[p] # "t_sleep") => pc'[p] = "t_lock"
            /\ (pc[p] = "t_check" /\ pc'[p] # "t_check" /\ NewData(last_seq[p]))
               => pc'[p] = "r_lock"]_vars


FailureIsTimeout ==
    \A p \in Procs :
        (Returned(p, "readWithTimeout") /\ ret[p] = "false") =>
            /\ last_error[p] = ErrTimeout
            /\ elapsed[p] >= timeout_ms[p]


\* a handle holds the lock and is about to load header fields
Observing(p) == held[p] /\ pc[p] \in {"r_hdr", "t_check", "g_read"}

\* C29: header consistency.  In every state a lock holder observes, the
\* sequence number is positive exactly when the magic is valid, and exactly
\* when data_size is positive, every value's text having at least one byte;
\* so no read() fails with the no-data message.
HeaderConsistency ==
    /\ \A v \in Values : Len(Dump(v)) >= 1
    /\ (\E p \in Procs : Observing(p)) =>
         /\ (sequence_number > 0) <=> (magic_number = MAGIC_NUMBER)
         /\ (magic_number = MAGIC_NUMBER) <=> (data_size > 0)
    /\ \A p \in Procs : pc[p] = "done" => last_error[p] # ErrNoData


\* C30: the polling consumer never sets its last sequence number to the
\* number of a value it did not receive: whenever it has assigned the result
\* of getSequenceNumber(), the value it received and processes is the one
\* the write with that number stored; so once the writes have stopped and
\* its number is the region's, the value it holds is the final one.
ConsumerCountsWhatItReceived ==
    (loop_pc = "poll" /\ last_cmd_seq > 0) =>
        \E i \in DOMAIN log :
            /\ log[i].seq = last_cmd_seq
            /\ log[i].v = command


\* C31: opening as owner starts afresh, whatever the name denoted before.
\* The owner's semaphore is a new one, open in no other handle, with count
\* 1, and the name denotes it; its memory object is a new one, mapped by no
\* other handle, zeroed, and the name denotes it; and a handle that attaches
\* gets the objects the names denote at its open, so after the new owner's
\* open not the ones left behind.
OwnerOpenStartsFresh ==
    [][\A h \in Handles :
         /\ (hpc[h] = "unborn" /\ hpc'[h] = "init_shm" /\ is_creator_'[h])
            => /\ sem_name' = sem_'[h]
               /\ sem_count'[sem_'[h]] = 1
               /\ \A g \in Handles \ {h} : sem_[g] # sem_'[h]
         /\ (hpc[h] = "init_shm" /\ hpc'[h] = "open" /\ is_creator_[h])
            => /\ shm_name' = mapped_ptr_'[h]
               /\ bytes'[mapped_ptr_'[h]] = 0
               /\ \A g \in Handles \ {h} : mapped_ptr_[g] # mapped_ptr_'[h]
         /\ (hpc[h] = "unborn" /\ hpc'[h] = "init_shm" /\ ~is_creator_'[h])
            => sem_'[h] = sem_name
         /\ (hpc[h] = "init_shm" /\ hpc'[h] = "open" /\ ~is_creator_[h])
            => mapped_ptr_'[h] = shm_name]_vars

\* C31's case: the first owner wrote a value and then stopped inside a
\* critical section, its semaphore at 0; a second owner has opened under the
\* name and a handle attached after it has the second owner's objects: a
\* free lock and a zeroed slot.
OwnerOpenStartsFreshWitness ==
    /\ LiveHandle("h1") /\ is_creator_["h1"] /\ cs["h1"] # "out"
    /\ bytes[mapped_ptr_["h1"]] = 1 /\ sem_count[sem_["h1"]] = 0
    /\ LiveHandle("h2") /\ is_creator_["h2"]
    /\ LiveHandle("h3") /\ ~is_creator_["h3"]
    /\ sem_["h3"] = sem_["h2"] /\ mapped_ptr_["h3"] = mapped_ptr_["h2"]
    /\ sem_["h3"] # sem_["h1"] /\ mapped_ptr_["h3"] # mapped_ptr_["h1"]
    /\ sem_count[sem_["h3"]] = 1 /\ bytes[mapped_ptr_["h3"]] = 0

=============================================================================
